---------------------------- MODULE Spec2Model ----------------------------
(***************************************************************************)
(* The Ichimoku tracker of tradingpulse (src/tracker/index.js): one run    *)
(* fetches the daily bars, computes the Ichimoku snapshot, classifies it   *)
(* as BUY / SELL / neutral, deduplicates the alert against the durable     *)
(* alert-history file, notifies, and publishes the website document.       *)
(*                                                                         *)
(* Strings the code builds or takes apart (signals, ISO dates, alert keys) *)
(* are sequences of one-character strings.  Prices are whole multiples of  *)
(* four, so that every midpoint the engine takes is exact, as it is for    *)
(* the doubles of the code on such values.                                 *)
(***************************************************************************)
EXTENDS Integers, Sequences, FiniteSets, TLC

(***************************************************************************)
(* Bounds of the model.                                                    *)
(***************************************************************************)
\* Runs (process invocations) that take place.
MaxRuns == 3
\* Longest Bar Series the engine is applied to.
MaxLen == 80
\* Price levels: 8, 12, .., 4 * (MaxLevel + 1).
MaxLevel == 2
\* Values a field of a free snapshot ranges over: 1 .. MaxSnap.
MaxSnap == 3
\* A fetched series starts on one of the days 1 .. 1 + MaxShift.
MaxShift == 1
\* Longest response of which every row is free to lack any of its prices.
MaxRows == 2
\* Alert keys are built for the days 1 .. MaxDay.
MaxDay == 35

(***************************************************************************)
(* Constants of the program.                                               *)
(***************************************************************************)
TenkanPeriod == 9
KijunPeriod == 26
SenkouBPeriod == 52
Shift == 26
MinBars == 78
HistoryWindow == 40

Runs == 1 .. MaxRuns
Levels == {4 * (k + 1) : k \in 1 .. MaxLevel}

(***************************************************************************)
(* Strings.                                                                *)
(***************************************************************************)
EmptyString == << >>
BUY == <<"B", "U", "Y">>
SELL == <<"S", "E", "L", "L">>
NEUTRAL == <<"N", "E", "U", "T", "R", "A", "L">>

\* a || b on strings: the empty string is falsy.
OrElse(a, b) == IF a = EmptyString THEN b ELSE a

\* String.prototype.indexOf for one character, counted from 1; 0 when absent.
IndexOf(s, c) ==
    IF \E i \in 1 .. Len(s) : s[i] = c
    THEN CHOOSE i \in 1 .. Len(s) : s[i] = c /\ \A j \in 1 .. (i - 1) : s[j] # c
    ELSE 0

\* String.prototype.split on a one-character separator.
RECURSIVE split(_, _)
split(s, c) ==
    LET k == IndexOf(s, c)
    IN  IF k = 0 THEN <<s>>
        ELSE <<SubSeq(s, 1, k - 1)>> \o split(SubSeq(s, k + 1, Len(s)), c)

\* Array.prototype.join with a one-character separator.
RECURSIVE join(_, _)
join(parts, c) ==
    IF Len(parts) = 0 THEN EmptyString
    ELSE IF Len(parts) = 1 THEN parts[1]
    ELSE parts[1] \o <<c>> \o join(Tail(parts), c)

(***************************************************************************)
(* Dates.  A Date is a day number, day 1 being 2024-01-01 (UTC midnight,   *)
(* as new Date('YYYY-MM-DD') gives); toISOString formats it.               *)
(***************************************************************************)
MonthDays == <<31, 29, 31, 30, 31, 30, 31, 31, 30, 31, 30, 31>>

RECURSIVE MonthAndDay(_, _)
MonthAndDay(day, m) ==
    IF day <= MonthDays[m] THEN <<m, day>>
    ELSE MonthAndDay(day - MonthDays[m], m + 1)

Digit(k) == <<"0", "1", "2", "3", "4", "5", "6", "7", "8", "9">>[k + 1]

TwoDigits(k) == <<Digit(k \div 10), Digit(k % 10)>>

toISOString(day) ==
    LET md == MonthAndDay(day, 1)
    IN  <<"2", "0", "2", "4", "-">> \o TwoDigits(md[1]) \o <<"-">>
        \o TwoDigits(md[2])
        \o <<"T", "0", "0", ":", "0", "0", ":", "0", "0", ".", "0", "0", "0", "Z">>

(***************************************************************************)
(* Bar series.                                                             *)
(***************************************************************************)
Bar(day, o, h, l, c) ==
    [date |-> day, open |-> o, high |-> h, low |-> l, close |-> c]

FlatBar(day, p) == Bar(day, p, p, p, p)

\* n bars on consecutive days from day `first`, every one flat at p.
FlatSeries(n, first, p) == [i \in 1 .. n |-> FlatBar(first + i - 1, p)]

\* The first s bars flat at p1, the later ones flat at p2.
StepSeries(n, first, s, p1, p2) ==
    [i \in 1 .. n |-> FlatBar(first + i - 1, IF i <= s THEN p1 ELSE p2)]

SpikeKinds == {"high", "low", "up", "down"}

\* One bar that leaves its level: a wick up or down, or a close up or down.
SpikeBar(day, p, kind) ==
    CASE kind = "high" -> Bar(day, p, p + 4, p, p)
      [] kind = "low"  -> Bar(day, p, p, p - 4, p)
      [] kind = "up"   -> Bar(day, p, p + 4, p, p + 4)
      [] kind = "down" -> Bar(day, p, p, p - 4, p - 4)

\* A flat series whose i-th bar is a spike.
SpikeSeries(n, first, p, i, kind) ==
    [j \in 1 .. n |->
        IF j = i THEN SpikeBar(first + j - 1, p, kind)
        ELSE FlatBar(first + j - 1, p)]

(***************************************************************************)
(* Ichimoku engine.                                                        *)
(***************************************************************************)
Infinity == 1000000
NaN == -1

Max(a, b) == IF a > b THEN a ELSE b
Min(a, b) == IF a < b THEN a ELSE b

\* An index argument of Array.prototype.slice, resolved against the length.
RelativeIndex(k, len) == IF k < 0 THEN Max(len + k, 0) ELSE Min(k, len)

\* Array.prototype.slice(start, end), indexes counted from 0, end excluded.
slice(arr, start, end) ==
    LET from == RelativeIndex(start, Len(arr))
        to == RelativeIndex(end, Len(arr))
    IN  IF from >= to THEN << >> ELSE SubSeq(arr, from + 1, to)

\* Array.prototype.slice(start): to the end of the array.
sliceFrom(arr, start) ==
    LET from == RelativeIndex(start, Len(arr))
    IN  IF from >= Len(arr) THEN << >> ELSE SubSeq(arr, from + 1, Len(arr))

\* What the for loop of getPeriodHighLow leaves in high: the greatest d.high
\* of the slice, and the initial -Infinity when the slice is empty.
HighOf(sl) ==
    LET highs == {sl[i].high : i \in 1 .. Len(sl)}
    IN  IF highs = {} THEN -Infinity
        ELSE CHOOSE h \in highs : \A x \in highs : ~(x > h)

\* What the loop leaves in low: the least d.low, Infinity when empty.
LowOf(sl) ==
    LET lows == {sl[i].low : i \in 1 .. Len(sl)}
    IN  IF lows = {} THEN Infinity
        ELSE CHOOSE l \in lows : \A x \in lows : ~(x < l)

getPeriodHighLow(sl) == [high |-> HighOf(sl), low |-> LowOf(sl)]

\* The midpoint not halved.
MidpointNotHalved(hl) ==
    IF hl.high = -Infinity /\ hl.low = Infinity THEN NaN
    ELSE hl.high + hl.low

\* (high + low) / 2; of an empty window it is (-Infinity + Infinity) / 2.
Midpoint(hl) ==
    IF hl.high = -Infinity /\ hl.low = Infinity THEN NaN
    ELSE (hl.high + hl.low) \div 2

NoSnapshot ==
    [tenkan |-> NaN, kijun |-> NaN, senkouA |-> NaN, senkouB |-> NaN,
     price |-> NaN, date |-> EmptyString]

NoError == "none"
SpanAError == "Not enough data to calculate Senkou Span A"
SpanBError == "Not enough data to calculate Senkou Span B"

Thrown(msg) == [threw |-> TRUE, message |-> msg, value |-> NoSnapshot]
Returned(v) == [threw |-> FALSE, message |-> NoError, value |-> v]
\* The Tenkan window one bar too long.
tenkanOfTenBars(d) ==
    Midpoint(getPeriodHighLow(sliceFrom(d, -TenkanPeriod - 1)))

tenkanOf(d) == Midpoint(getPeriodHighLow(sliceFrom(d, -TenkanPeriod)))

kijunOf(d) == Midpoint(getPeriodHighLow(sliceFrom(d, -KijunPeriod)))

t26_slice(d) == slice(d, -Shift - TenkanPeriod, -Shift)

k26_slice(d) == slice(d, -Shift - KijunPeriod, -Shift)
\* The Span B window not shifted back: the latest 52 bars.
b52SliceUnshifted(d) == sliceFrom(d, -SenkouBPeriod)

b52Slice(d) == slice(d, -SenkouBPeriod - Shift, -Shift)

SpanAShort(d) ==
    Len(t26_slice(d)) < TenkanPeriod \/ Len(k26_slice(d)) < KijunPeriod

\* The Span B check one bar too lenient.
SpanBShortLenient(d) == Len(b52Slice(d)) < SenkouBPeriod - 1

SpanBShort(d) == Len(b52Slice(d)) < SenkouBPeriod

senkouAOf(d) ==
    (Midpoint(getPeriodHighLow(t26_slice(d)))
        + Midpoint(getPeriodHighLow(k26_slice(d)))) \div 2

senkouBOf(d) == Midpoint(getPeriodHighLow(b52Slice(d)))

\* The value calculateIchimoku returns, or the error it throws.
calculateIchimoku(d) ==
    IF SpanAShort(d) THEN Thrown(SpanAError)
    ELSE IF SpanBShort(d) THEN Thrown(SpanBError)
    ELSE Returned([tenkan  |-> tenkanOf(d),
                   kijun   |-> kijunOf(d),
                   senkouA |-> senkouAOf(d),
                   senkouB |-> senkouBOf(d),
                   price   |-> d[Len(d)].close,
                   date    |-> toISOString(d[Len(d)].date)])

(***************************************************************************)
(* Signal classifier: the if / else-if of run.  '' stands for no signal.   *)
(***************************************************************************)
\* BUY with the price merely at the upper edge of the cloud.
IsBuyNonStrict(s) == s.tenkan > s.kijun /\ s.price >= Max(s.senkouA, s.senkouB)

\* BUY with the price merely above the lower edge of the cloud.
IsBuyInsideCloud(s) == s.tenkan > s.kijun /\ s.price > Min(s.senkouA, s.senkouB)

IsBuy(s) == s.tenkan > s.kijun /\ s.price > Max(s.senkouA, s.senkouB)
\* The SELL branch copied from the BUY branch with only max turned into min.
IsSellCopiedFromBuy(s) ==
    s.tenkan > s.kijun /\ s.price > Min(s.senkouA, s.senkouB)

\* SELL with the lines merely touching.
IsSellNonStrict(s) == s.tenkan <= s.kijun /\ s.price < Min(s.senkouA, s.senkouB)

IsSell(s) == s.tenkan < s.kijun /\ s.price < Min(s.senkouA, s.senkouB)

classify(s) ==
    IF IsBuy(s) THEN BUY
    ELSE IF IsSell(s) THEN SELL
    ELSE EmptyString

(***************************************************************************)
(* The durable alert store: a JSON object, kept as its members in          *)
(* insertion order.  A file is the sequence of at most one content.        *)
(***************************************************************************)
EmptyObject == << >>

NoFile == << >>

FileOf(content) == <<content>>

\* What a write that failed part-way leaves in a file: text that is not JSON.
Damaged == <<[damaged |-> TRUE]>>

\* JSON.parse(fs.readFileSync(...)) returns an object.
Parses(file) == file # NoFile /\ file[1] # Damaged

\* history[key], tested for truthiness.
Truthy(obj, key) == \E i \in 1 .. Len(obj) : obj[i].key = key /\ obj[i].value

HasKey(obj, key) == \E i \in 1 .. Len(obj) : obj[i].key = key

\* A fresh object holding the key alone.
SetTrueAlone(obj, key) == <<[key |-> key, value |-> TRUE]>>

\* history[key] = true
SetTrue(obj, key) ==
    IF HasKey(obj, key)
    THEN [i \in 1 .. Len(obj) |->
            IF obj[i].key = key THEN [key |-> key, value |-> TRUE] ELSE obj[i]]
    ELSE Append(obj, [key |-> key, value |-> TRUE])

\* Object.keys
ObjectKeys(obj) == [i \in 1 .. Len(obj) |-> obj[i].key]

\* A key of the day alone.
AlertKeyDayOnly(sig, date) == split(date, "T")[1]

\* `${signal}-${date.split('T')[0]}`
AlertKey(sig, date) == sig \o <<"-">> \o split(date, "T")[1]

\* A decoding that takes the second segment alone for the date.
DecodeKeyTwoSegments(key) ==
    LET parts == split(key, "-")
    IN  [type |-> parts[1], date |-> parts[2]]

\* The { type, date } entry run builds from a key of the alert store.
DecodeKey(key) ==
    LET parts == split(key, "-")
    IN  [type |-> parts[1], date |-> join(Tail(parts), "-")]

\* The entry of the key written last, alone.
signalsArrayOfLatest(obj) ==
    IF Len(obj) = 0 THEN << >> ELSE <<DecodeKey(ObjectKeys(obj)[Len(obj)])>>

signalsArrayOf(obj) == [i \in 1 .. Len(obj) |-> DecodeKey(ObjectKeys(obj)[i])]

(***************************************************************************)
(* What the data source returns to a run.                                  *)
(***************************************************************************)
FirstDays == 1 .. (1 + MaxShift)

TrendLen == 10

\* isNaN on a parsed field: parseFloat gives NaN for an absent or non-numeric
\* field.
isNaN(x) == x = NaN

\* The test of the filter at the end of fetchHistoricalData.
Usable(d) ==
    ~ isNaN(d.open) /\ ~ isNaN(d.high) /\ ~ isNaN(d.low) /\ ~ isNaN(d.close)

\* lines.slice(1).map(...).filter(...): the parsed rows that pass the test,
\* in their order.
filterRows(rows) == SelectSeq(rows, Usable)

ShortFeeds == {FlatSeries(MinBars - 1, 1, 8)}

FlatFeeds == {FlatSeries(MinBars, 1, 8)}

BuyFeeds == {StepSeries(MinBars, f, MinBars - TrendLen, 8, 12) : f \in FirstDays}

SellFeeds == {StepSeries(MinBars, f, MinBars - TrendLen, 12, 8) : f \in FirstDays}

\* 78 rows of which the latest has no open price.
DegradedFeeds == {[FlatSeries(MinBars, 1, 8) EXCEPT ![MinBars].open = NaN]}

\* A response of the header line alone.
NoRows == {<< >>}

Feeds ==
    ShortFeeds \cup FlatFeeds \cup BuyFeeds \cup SellFeeds
        \cup DegradedFeeds \cup NoRows

FetchError == "Stooq fetch failed"

(***************************************************************************)
(* The dashboard: the App component of the website, which exists in four   *)
(* variants.  A state of useState that can be null is the sequence of at   *)
(* most one value.                                                         *)
(***************************************************************************)
Variants == {"App.jsx:60", "App.jsx:308", "part_001", "part_002"}

null == << >>

\* The states of useState before the first effect, and what the component
\* has on its hands: the fetches in flight, the timer ticks so far, whether
\* it stands before setLoading(false), and what it last rendered.
useState(v) ==
    [variant |-> v, mounted |-> FALSE, data |-> 0, loading |-> TRUE,
     currentPrice |-> 0, ichimoku |-> null, pending |-> 0, polls |-> 0,
     at |-> "idle", view |-> "none"]

\* No dashboard is open.
Closed == useState("none")

\* The documents /data.json can hold: a signal or none, a price or none, the
\* four lines or none, and a history of no or forty bars.
Documents ==
    [signal : {EmptyString, BUY, SELL, NEUTRAL}, price : {0, 8},
     ichimoku : {null, <<[tenkan |-> 8, kijun |-> 12, senkouA |-> 8,
                          senkouB |-> 4]>>},
     history : {0, 40}]

\* jsonData.ichimoku?.field || 0
LineOrZero(jsonData, field) ==
    IF jsonData.ichimoku = null THEN 0 ELSE jsonData.ichimoku[1][field]

\* The object fetchRealData hands to setIchimoku.
ichimokuOf(jsonData) ==
    [signal |-> OrElse(jsonData.signal, NEUTRAL),
     tenkan |-> LineOrZero(jsonData, "tenkan"),
     kijun  |-> LineOrZero(jsonData, "kijun"),
     spanA  |-> LineOrZero(jsonData, "senkouA"),
     spanB  |-> LineOrZero(jsonData, "senkouB")]

\* The object fetchMockData hands to setIchimoku in the variants that call it.
MockIchimoku ==
    [signal |-> NEUTRAL, tenkan |-> 245, kijun |-> 240, spanA |-> 235,
     spanB |-> 230]

\* The mock close the variants take as the current price.
MockPrice == 250

\* fetchMockData up to its setLoading(false): forty mock bars in every
\* variant; the variant of App.jsx at line 308 sets neither the price nor
\* ichimoku.
fetchMockData(a) ==
    IF a.variant = "App.jsx:308"
    THEN [a EXCEPT !.data = 40]
    ELSE [a EXCEPT !.data = 40, !.currentPrice = MockPrice,
                   !.ichimoku = <<MockIchimoku>>]

\* What the component returns when it renders: the loading screen, or the
\* dashboard, whose JSX reads ichimoku.signal.
render(a) ==
    IF a.loading THEN "loading"
    ELSE IF a.ichimoku = null THEN "TypeError"
    ELSE "dashboard"

(***************************************************************************)
(* State.                                                                  *)
(***************************************************************************)
VARIABLES
    pc,            \* pc[r]: where run r stands
    data,          \* data[r]: the Bar Series run r fetched
    ichimoku,      \* ichimoku[r]: the snapshot run r computed
    signal,        \* signal[r]: '' or BUY or SELL
    fileExists,    \* fileExists[r]: what existsSync told checkAlertHistory
    history,       \* history[r]: the object checkAlertHistory parsed
    ret,           \* ret[r]: what checkAlertHistory returned to run r
    sendResult,    \* sendResult[r]: how run r's sendEmail went
    historyData,   \* historyData[r]: the object run r parsed for the chart
    error,         \* error[r]: the message run r's catch block logged
    historyFile,   \* alert-history.json
    websiteData,   \* data.json
    sendLog,       \* the calls of sendEmail so far, in order
    outcomes,      \* <<signal, day, result>> of the sendEmail calls on record
    called,        \* the (signal, day) pairs checkAlertHistory has answered
    written,       \* the (signal, day) pairs whose key has been written
    writtenAtRead, \* writtenAtRead[r]: `written` when r read the alert store
    app            \* the dashboard: the state of its App component

vars ==
    <<pc, data, ichimoku, signal, fileExists, history, ret, sendResult,
      historyData, error, historyFile, websiteData, sendLog, outcomes,
      called, written, writtenAtRead, app>>

Finished(r) == pc[r] \in {"done", "exit1"}

NotStarted(r) == pc[r] = "fetch"

InitOtherLocals ==
    /\ signal = [r \in Runs |-> EmptyString]
    /\ fileExists = [r \in Runs |-> FALSE]
    /\ history = [r \in Runs |-> EmptyObject]
    /\ ret = [r \in Runs |-> "none"]
    /\ sendResult = [r \in Runs |-> "none"]
    /\ historyData = [r \in Runs |-> EmptyObject]
    /\ error = [r \in Runs |-> NoError]
    /\ writtenAtRead = [r \in Runs |-> {}]

InitLocals ==
    /\ data = [r \in Runs |-> << >>]
    /\ ichimoku = [r \in Runs |-> NoSnapshot]
    /\ InitOtherLocals

\* x for run 1 and the initial value for every other run.
OnlyRun1(x, initial) == [r \in Runs |-> IF r = 1 THEN x ELSE initial]

InitFiles ==
    /\ websiteData = NoFile
    /\ sendLog = << >>
    /\ outcomes = {}
    /\ called = {}
    /\ written = {}

\* No run has started; the alert store is missing or empty.
Init ==
    /\ pc = [r \in Runs |-> "fetch"]
    /\ InitLocals
    /\ historyFile \in {NoFile, FileOf(EmptyObject)}
    /\ InitFiles
    /\ app = Closed

\* The process of run r ends: its memory is gone, its exit status and what it
\* logged stay.
ProcessEnds(r) ==
    /\ data' = [data EXCEPT ![r] = << >>]
    /\ ichimoku' = [ichimoku EXCEPT ![r] = NoSnapshot]
    /\ signal' = [signal EXCEPT ![r] = EmptyString]
    /\ fileExists' = [fileExists EXCEPT ![r] = FALSE]
    /\ history' = [history EXCEPT ![r] = EmptyObject]
    /\ ret' = [ret EXCEPT ![r] = "none"]
    /\ sendResult' = [sendResult EXCEPT ![r] = "none"]
    /\ historyData' = [historyData EXCEPT ![r] = EmptyObject]
    /\ writtenAtRead' = [writtenAtRead EXCEPT ![r] = {}]

(***************************************************************************)
(* run, step by step.  A step ends at an await or at a file-system call,   *)
(* the places where another process can act in between.                    *)
(***************************************************************************)
\* fetchHistoricalData that logs its failure and returns no rows.
FetchLenient(r) ==
    /\ pc[r] = "fetch"
    /\ \/ /\ \E rows \in Feeds : data' = [data EXCEPT ![r] = filterRows(rows)]
          /\ UNCHANGED error
       \/ /\ error' = [error EXCEPT ![r] = FetchError]
          /\ UNCHANGED data
    /\ pc' = [pc EXCEPT ![r] = "check"]
    /\ UNCHANGED <<ichimoku, signal, fileExists, history, ret, sendResult,
                   historyData, writtenAtRead, historyFile, websiteData, app,
                   sendLog, outcomes, called, written>>

\* await fetchHistoricalData: the bars, or an error caught by run's catch,
\* which logs it and exits with status 1.
Fetch(r) ==
    /\ pc[r] = "fetch"
    /\ \/ /\ \E rows \in Feeds : data' = [data EXCEPT ![r] = filterRows(rows)]
          /\ pc' = [pc EXCEPT ![r] = "check"]
          /\ UNCHANGED <<ichimoku, signal, fileExists, history, ret,
                         sendResult, historyData, error, writtenAtRead>>
       \/ /\ error' = [error EXCEPT ![r] = FetchError]
          /\ pc' = [pc EXCEPT ![r] = "exit1"]
          /\ ProcessEnds(r)
    /\ UNCHANGED <<historyFile, websiteData, app, sendLog, outcomes, called,
                   written>>

\* The filter of fetchHistoricalData on rows already parsed.
Filter(r) ==
    /\ pc[r] = "filter"
    /\ data' = [data EXCEPT ![r] = filterRows(data[r])]
    /\ pc' = [pc EXCEPT ![r] = "check"]
    /\ UNCHANGED <<ichimoku, signal, fileExists, history, ret, sendResult,
                   historyData, error, historyFile, websiteData, app, sendLog,
                   outcomes, called, written, writtenAtRead>>

\* A test against the Span B period instead of the 78 bars.
TooShortForSpanB(d) == Len(d) < SenkouBPeriod
\* A test that lets 77 bars through.
TooShortOffByOne(d) == Len(d) < MinBars - 1

\* data.length < 78
TooShort(d) == Len(d) < MinBars

\* if (data.length < 78) return;
CheckLength(r) ==
    /\ pc[r] = "check"
    /\ IF TooShort(data[r])
       THEN /\ pc' = [pc EXCEPT ![r] = "done"]
            /\ ProcessEnds(r)
       ELSE /\ pc' = [pc EXCEPT ![r] = "compute"]
            /\ UNCHANGED <<data, ichimoku, signal, fileExists, history, ret,
                           sendResult, historyData, writtenAtRead>>
    /\ UNCHANGED <<error, historyFile, websiteData, app, sendLog, outcomes,
                   called, written>>

\* const ichimoku = calculateIchimoku(data); a throw lands in run's catch.
Compute(r) ==
    /\ pc[r] = "compute"
    /\ LET res == calculateIchimoku(data[r])
       IN  IF res.threw
           THEN /\ error' = [error EXCEPT ![r] = res.message]
                /\ pc' = [pc EXCEPT ![r] = "exit1"]
                /\ ProcessEnds(r)
           ELSE /\ ichimoku' = [ichimoku EXCEPT ![r] = res.value]
                /\ pc' = [pc EXCEPT ![r] = "classify"]
                /\ UNCHANGED <<data, signal, fileExists, history, ret,
                               sendResult, historyData, error,
                               writtenAtRead>>
    /\ UNCHANGED <<historyFile, websiteData, app, sendLog, outcomes, called,
                   written>>

\* The classification without the if (signal) after it: checkAlertHistory is
\* called whatever the signal.
ClassifyUnguarded(r) ==
    /\ pc[r] = "classify"
    /\ signal' = [signal EXCEPT ![r] = classify(ichimoku[r])]
    /\ pc' = [pc EXCEPT ![r] = "exists"]
    /\ UNCHANGED <<data, ichimoku, fileExists, history, ret, sendResult,
                   historyData, error, historyFile, websiteData, app, sendLog,
                   outcomes, called, written, writtenAtRead>>
\* A classification that consults the alert store: a signal whose key is
\* already in the store is classified as no signal.
ClassifyStateful(r) ==
    /\ pc[r] = "classify"
    /\ signal' = [signal EXCEPT ![r] =
                    IF /\ Parses(historyFile)
                       /\ Truthy(historyFile[1],
                                 AlertKey(classify(ichimoku[r]),
                                          split(ichimoku[r].date, "T")[1]))
                    THEN EmptyString ELSE classify(ichimoku[r])]
    /\ pc' = [pc EXCEPT ![r] =
                IF signal'[r] # EmptyString THEN "exists" ELSE "pubread"]
    /\ UNCHANGED <<data, ichimoku, fileExists, history, ret, sendResult,
                   historyData, error, historyFile, websiteData, app, sendLog,
                   outcomes, called, written, writtenAtRead>>

\* The if / else-if that sets signal, and if (signal) after it.
Classify(r) ==
    /\ pc[r] = "classify"
    /\ signal' = [signal EXCEPT ![r] = classify(ichimoku[r])]
    /\ pc' = [pc EXCEPT ![r] =
                IF classify(ichimoku[r]) # EmptyString THEN "exists" ELSE "pubread"]
    /\ UNCHANGED <<data, ichimoku, fileExists, history, ret, sendResult,
                   historyData, error, historyFile, websiteData, app, sendLog,
                   outcomes, called, written, writtenAtRead>>

\* checkAlertHistory: fs.existsSync(CONFIG.historyPath)
DedupExists(r) ==
    /\ pc[r] = "exists"
    /\ fileExists' = [fileExists EXCEPT ![r] = historyFile # NoFile]
    /\ pc' = [pc EXCEPT ![r] = IF historyFile # NoFile THEN "read" ELSE "init"]
    /\ UNCHANGED <<data, ichimoku, signal, history, ret, sendResult,
                   historyData, error, historyFile, websiteData, app, sendLog,
                   outcomes, called, written, writtenAtRead>>

\* checkAlertHistory: fs.writeFileSync(CONFIG.historyPath, JSON.stringify({}))
DedupInit(r) ==
    /\ pc[r] = "init"
    /\ historyFile' = FileOf(EmptyObject)
    /\ pc' = [pc EXCEPT ![r] = "read"]
    /\ UNCHANGED <<data, ichimoku, signal, fileExists, history, ret,
                   sendResult, historyData, error, websiteData, app, sendLog,
                   outcomes, called, written, writtenAtRead>>

\* The (signal, calendar day) pair a call of checkAlertHistory is about.
CallOf(r) == <<signal[r], split(ichimoku[r].date, "T")[1]>>

\* A test that never finds the key.
NeverAlerted(obj, key) == FALSE

\* if (history): a test of the object, which is truthy whatever it holds.
ObjectTruthy(obj, key) == TRUE

\* The test of checkAlertHistory on the object it parsed.
AlreadyAlerted(obj, key) == Truthy(obj, key)
\* checkAlertHistory returning false before the key is written: the write
\* is left for after the notification.
DedupReadSendFirst(r) ==
    /\ pc[r] = "read"
    /\ Parses(historyFile)
    /\ writtenAtRead' = [writtenAtRead EXCEPT ![r] = written]
    /\ written' = written
    /\ LET obj == historyFile[1]
           key == AlertKey(signal[r], ichimoku[r].date)
       IN  /\ history' = [history EXCEPT ![r] =
                            IF AlreadyAlerted(obj, key) THEN obj
                            ELSE SetTrue(obj, key)]
           /\ ret' = [ret EXCEPT ![r] =
                        IF AlreadyAlerted(obj, key) THEN "true" ELSE "false"]
           /\ called' = called \cup {CallOf(r)}
           /\ pc' = [pc EXCEPT ![r] =
                       IF AlreadyAlerted(obj, key) THEN "pubread" ELSE "send"]
    /\ UNCHANGED <<data, ichimoku, signal, fileExists, sendResult,
                   historyData, error, historyFile, websiteData, app, sendLog,
                   outcomes>>

\* checkAlertHistory: the read and parse, the test of the key, and either
\* return true or history[key] = true.
DedupRead(r) ==
    /\ pc[r] = "read"
    /\ Parses(historyFile)
    /\ writtenAtRead' = [writtenAtRead EXCEPT ![r] = written]
    /\ written' = written
    /\ LET obj == historyFile[1]
           key == AlertKey(signal[r], ichimoku[r].date)
       IN  IF AlreadyAlerted(obj, key)
           THEN /\ history' = [history EXCEPT ![r] = obj]
                /\ ret' = [ret EXCEPT ![r] = "true"]
                /\ called' = called \cup {CallOf(r)}
                /\ pc' = [pc EXCEPT ![r] = "pubread"]
           ELSE /\ history' = [history EXCEPT ![r] = SetTrue(obj, key)]
                /\ pc' = [pc EXCEPT ![r] = "write"]
                /\ UNCHANGED <<ret, called>>
    /\ UNCHANGED <<data, ichimoku, signal, fileExists, sendResult,
                   historyData, error, historyFile, websiteData, app, sendLog,
                   outcomes>>
\* checkAlertHistory returning false with the key kept in memory only: the
\* write of the mapping is left to a send that succeeds.
DedupWriteDeferred(r) ==
    /\ pc[r] = "write"
    /\ ret' = [ret EXCEPT ![r] = "false"]
    /\ called' = called \cup {CallOf(r)}
    /\ pc' = [pc EXCEPT ![r] = "send"]
    /\ UNCHANGED <<data, ichimoku, signal, fileExists, history, sendResult,
                   historyData, error, historyFile, websiteData, app, sendLog,
                   outcomes, written, writtenAtRead>>

\* checkAlertHistory: fs.writeFileSync(CONFIG.historyPath, ...); return false
DedupWrite(r) ==
    /\ pc[r] = "write"
    /\ historyFile' = FileOf(history[r])
    /\ ret' = [ret EXCEPT ![r] = "false"]
    /\ called' = called \cup {CallOf(r)}
    /\ written' = written \cup {CallOf(r)}
    /\ pc' = [pc EXCEPT ![r] = "send"]
    /\ UNCHANGED <<data, ichimoku, signal, fileExists, history, sendResult,
                   historyData, error, websiteData, app, sendLog, outcomes,
                   writtenAtRead>>

SendResults == {"skipped", "sent", "failed"}

\* sendEmail that throws when the credentials are missing.
NotifyStrict(r, res) ==
    /\ pc[r] = "send"
    /\ sendLog' = Append(sendLog, CallOf(r))
    /\ IF res = "skipped"
       THEN /\ error' = [error EXCEPT ![r] = "Missing credentials"]
            /\ pc' = [pc EXCEPT ![r] = "exit1"]
            /\ ProcessEnds(r)
       ELSE /\ sendResult' = [sendResult EXCEPT ![r] = res]
            /\ pc' = [pc EXCEPT ![r] = "pubread"]
            /\ UNCHANGED <<data, ichimoku, signal, fileExists, history, ret,
                           historyData, error, writtenAtRead>>
    /\ UNCHANGED <<historyFile, websiteData, app, called, written>>

\* sendEmail without its try / catch: a failed send is thrown to run.
NotifyThrows(r, res) ==
    /\ pc[r] = "send"
    /\ sendLog' = Append(sendLog, CallOf(r))
    /\ IF res = "failed"
       THEN /\ error' = [error EXCEPT ![r] = "Email failed"]
            /\ pc' = [pc EXCEPT ![r] = "exit1"]
            /\ ProcessEnds(r)
       ELSE /\ sendResult' = [sendResult EXCEPT ![r] = res]
            /\ pc' = [pc EXCEPT ![r] = "pubread"]
            /\ UNCHANGED <<data, ichimoku, signal, fileExists, history, ret,
                           historyData, error, writtenAtRead>>
    /\ UNCHANGED <<historyFile, websiteData, app, called, written>>

\* await sendEmail(...) ending with result res: skipped without credentials,
\* sent, or failed and caught inside sendEmail.
Notify(r, res) ==
    /\ pc[r] = "send"
    /\ sendResult' = [sendResult EXCEPT ![r] = res]
    /\ sendLog' = Append(sendLog, CallOf(r))
    /\ pc' = [pc EXCEPT ![r] = "pubread"]
    /\ UNCHANGED <<data, ichimoku, signal, fileExists, history, ret,
                   historyData, error, historyFile, websiteData, app, called,
                   written, writtenAtRead>>

SendEmail(r) == \E res \in SendResults : Notify(r, res) /\ UNCHANGED outcomes

\* const historyData = JSON.parse(existsSync ? readFileSync : '{}')
PublishRead(r) ==
    /\ pc[r] = "pubread"
    /\ historyFile = NoFile \/ Parses(historyFile)
    /\ historyData' = [historyData EXCEPT ![r] =
                          IF historyFile # NoFile THEN historyFile[1]
                          ELSE EmptyObject]
    /\ pc' = [pc EXCEPT ![r] = "pubwrite"]
    /\ UNCHANGED <<data, ichimoku, signal, fileExists, history, ret,
                   sendResult, error, historyFile, websiteData, app, sendLog,
                   outcomes, called, written, writtenAtRead>>

historyEntry(d) ==
    [date  |-> split(toISOString(d.date), "T")[1],
     open  |-> d.open,
     high  |-> d.high,
     low   |-> d.low,
     close |-> d.close,
     price |-> d.close]

\* The entries of the earliest bars instead of the latest.
historyOfEarliest(d) ==
    LET first == slice(d, 0, HistoryWindow)
    IN  [i \in 1 .. Len(first) |-> historyEntry(first[i])]

\* data.slice(-40).map(d => ({ ... }))
historyOf(d) ==
    LET last == sliceFrom(d, -HistoryWindow)
    IN  [i \in 1 .. Len(last) |-> historyEntry(last[i])]

\* A document that reports NEUTRAL when the alert was suppressed.
websiteDataQuiet(r) ==
    [ticker        |-> "GLD",
     price         |-> ichimoku[r].price,
     date          |-> ichimoku[r].date,
     signal        |-> IF ret[r] = "true" THEN NEUTRAL ELSE OrElse(signal[r], NEUTRAL),
     signalHistory |-> signalsArrayOf(historyData[r]),
     ichimoku      |-> [tenkan  |-> ichimoku[r].tenkan,
                        kijun   |-> ichimoku[r].kijun,
                        senkouA |-> ichimoku[r].senkouA,
                        senkouB |-> ichimoku[r].senkouB],
     history       |-> historyOf(data[r])]

websiteDataOf(r) ==
    [ticker        |-> "GLD",
     price         |-> ichimoku[r].price,
     date          |-> ichimoku[r].date,
     signal        |-> OrElse(signal[r], NEUTRAL),
     signalHistory |-> signalsArrayOf(historyData[r]),
     ichimoku      |-> [tenkan  |-> ichimoku[r].tenkan,
                        kijun   |-> ichimoku[r].kijun,
                        senkouA |-> ichimoku[r].senkouA,
                        senkouB |-> ichimoku[r].senkouB],
     history       |-> historyOf(data[r])]

\* fs.writeFileSync(CONFIG.websiteDataPath, JSON.stringify(websiteData)),
\* the last statement of run.
PublishWrite(r) ==
    /\ pc[r] = "pubwrite"
    /\ websiteData' = FileOf(websiteDataOf(r))
    /\ pc' = [pc EXCEPT ![r] = "done"]
    /\ ProcessEnds(r)
    /\ UNCHANGED <<error, historyFile, app, sendLog, outcomes, called,
                   written>>

Step(r) ==
    \/ Fetch(r)
    \/ CheckLength(r)
    \/ Compute(r)
    \/ Classify(r)
    \/ DedupExists(r)
    \/ DedupInit(r)
    \/ DedupRead(r)
    \/ DedupWrite(r)
    \/ SendEmail(r)
    \/ PublishRead(r)
    \/ PublishWrite(r)

(***************************************************************************)
(* Two runs that may overlap: any interleaving of their steps.  The other  *)
(* runs do not start.                                                      *)
(***************************************************************************)
Overlapping == {1, 2}

Next == \E r \in Overlapping : Step(r)

Spec == Init /\ [][Next]_vars

(***************************************************************************)
(* Runs one after another: a run starts only when the run before it has    *)
(* finished.                                                               *)
(***************************************************************************)
InTurn(r) == \A q \in Runs : q < r => Finished(q)

SeqFetch(r) == InTurn(r) /\ Fetch(r)

SeqNext ==
    \E r \in Runs :
        \/ SeqFetch(r)
        \/ CheckLength(r)
        \/ Compute(r)
        \/ Classify(r)
        \/ DedupExists(r)
        \/ DedupInit(r)
        \/ DedupRead(r)
        \/ DedupWrite(r)
        \/ SendEmail(r)
        \/ PublishRead(r)
        \/ PublishWrite(r)

SeqSpec == Init /\ [][SeqNext]_vars

(***************************************************************************)
(* The engine and the classifier applied to every series of a family:      *)
(* calculateIchimoku is called on the series whatever its length.          *)
(***************************************************************************)
Lengths == 0 .. MaxLen

\* The series is handed to run 1, which stands before calculateIchimoku.
EngineInit ==
    /\ pc = [r \in Runs |-> IF r = 1 THEN "compute" ELSE "fetch"]
    /\ \E n \in Lengths, p \in Levels :
          \/ data = OnlyRun1(FlatSeries(n, 1, p), << >>)
          \/ \E i \in 1 .. n, k \in SpikeKinds :
                data = OnlyRun1(SpikeSeries(n, 1, p, i, k), << >>)
          \/ \E s \in 1 .. (n - 1), q \in Levels \ {p} :
                data = OnlyRun1(StepSeries(n, 1, s, p, q), << >>)
    /\ ichimoku = [r \in Runs |-> NoSnapshot]
    /\ InitOtherLocals
    /\ historyFile = NoFile
    /\ InitFiles
    /\ app = Closed

EngineNext == Compute(1) \/ Classify(1)

EngineSpec == EngineInit /\ [][EngineNext]_vars

(***************************************************************************)
(* The classifier applied to every snapshot over a small range of values,  *)
(* followed by checkAlertHistory for the signal it sets.                   *)
(***************************************************************************)
SnapValues == 1 .. MaxSnap

Snapshots ==
    [tenkan : SnapValues, kijun : SnapValues, senkouA : SnapValues,
     senkouB : SnapValues, price : SnapValues, date : {toISOString(1)}]

\* The snapshot is handed to run 1, which stands before the classification.
ClassifyInit ==
    /\ pc = [r \in Runs |-> IF r = 1 THEN "classify" ELSE "fetch"]
    /\ data = [r \in Runs |-> << >>]
    /\ \E s \in Snapshots : ichimoku = OnlyRun1(s, NoSnapshot)
    /\ InitOtherLocals
    /\ historyFile = NoFile
    /\ InitFiles
    /\ app = Closed

ClassifyNext ==
    \/ Classify(1)
    \/ DedupExists(1)
    \/ DedupInit(1)
    \/ DedupRead(1)
    \/ DedupWrite(1)

ClassifySpec == ClassifyInit /\ [][ClassifyNext]_vars

(***************************************************************************)
(* Two runs one after another in an environment that can fail: a write of  *)
(* the alert store can throw, leaving the file as it was or damaged, a     *)
(* read of it can throw, and a damaged file never parses.  What throws     *)
(* lands in run's catch, which logs the message and exits with status 1.   *)
(* The result of every sendEmail call is kept on record.                   *)
(***************************************************************************)
WriteFailed == "writeFileSync failed"

ReadFailed == "readFileSync or JSON.parse failed"

\* run's catch block: console.error(error.message); process.exit(1)
Catch(r, message) ==
    /\ error' = [error EXCEPT ![r] = message]
    /\ pc' = [pc EXCEPT ![r] = "exit1"]
    /\ ProcessEnds(r)

\* checkAlertHistory: the lazy initialization write throws.
DedupInitFails(r) ==
    /\ pc[r] = "init"
    /\ historyFile' \in {historyFile, FileOf(Damaged)}
    /\ Catch(r, WriteFailed)
    /\ UNCHANGED <<websiteData, app, sendLog, outcomes, called, written>>

\* checkAlertHistory that catches the failed read and answers false.
DedupReadSwallowed(r) ==
    /\ pc[r] = "read"
    /\ error' = [error EXCEPT ![r] = ReadFailed]
    /\ ret' = [ret EXCEPT ![r] = "false"]
    /\ called' = called \cup {CallOf(r)}
    /\ pc' = [pc EXCEPT ![r] = "send"]
    /\ UNCHANGED <<data, ichimoku, signal, fileExists, history, sendResult,
                   historyData, historyFile, websiteData, app, sendLog, outcomes,
                   written, writtenAtRead>>

\* checkAlertHistory: readFileSync or JSON.parse throws.
DedupReadFails(r) ==
    /\ pc[r] = "read"
    /\ Catch(r, ReadFailed)
    /\ UNCHANGED <<historyFile, websiteData, app, sendLog, outcomes, called,
                   written>>

\* checkAlertHistory: the write of the updated object throws.
DedupWriteFails(r) ==
    /\ pc[r] = "write"
    /\ historyFile' \in {historyFile, FileOf(Damaged)}
    /\ Catch(r, WriteFailed)
    /\ UNCHANGED <<websiteData, app, sendLog, outcomes, called, written>>

\* run: the read of the alert store for the chart throws.
PublishReadFails(r) ==
    /\ pc[r] = "pubread"
    /\ historyFile # NoFile
    /\ Catch(r, ReadFailed)
    /\ UNCHANGED <<historyFile, websiteData, app, sendLog, outcomes, called,
                   written>>

\* await sendEmail(...), its result put on record.
SendEmailRecorded(r) ==
    \E res \in SendResults :
        /\ Notify(r, res)
        /\ outcomes' = outcomes \cup {<<CallOf(r)[1], CallOf(r)[2], res>>}

Successive == {1, 2}

FaultNext ==
    \E r \in Successive :
        \/ SeqFetch(r)
        \/ CheckLength(r)
        \/ Compute(r)
        \/ Classify(r)
        \/ DedupExists(r)
        \/ DedupInit(r)
        \/ DedupInitFails(r)
        \/ DedupRead(r)
        \/ DedupReadFails(r)
        \/ DedupWrite(r)
        \/ DedupWriteFails(r)
        \/ SendEmailRecorded(r)
        \/ PublishRead(r)
        \/ PublishReadFails(r)
        \/ PublishWrite(r)

FaultSpec == Init /\ [][FaultNext]_vars

(***************************************************************************)
(* The filter of fetchHistoricalData applied to parsed rows, any of whose  *)
(* prices can be NaN, and the length test of run on what it keeps.         *)
(***************************************************************************)
Fields == {"open", "high", "low", "close"}

Parsed == {8, NaN}

\* The rows a line of the response can parse to, for one day.
RowsOf(day) == {Bar(day, o, h, l, c) : o \in Parsed, h \in Parsed, l \in Parsed, c \in Parsed}

\* A row of which the one price f is NaN.
RowWithout(day, f) ==
    Bar(day, IF f = "open" THEN NaN ELSE 8, IF f = "high" THEN NaN ELSE 8,
        IF f = "low" THEN NaN ELSE 8, IF f = "close" THEN NaN ELSE 8)

\* The rows are handed to run 1, which stands before the filter: short
\* responses of any rows, and 78 rows of which one lacks one price.
FilterInit ==
    /\ pc = [r \in Runs |-> IF r = 1 THEN "filter" ELSE "fetch"]
    /\ \/ \E n \in 0 .. MaxRows :
             \E rows \in [1 .. n -> UNION {RowsOf(d) : d \in 1 .. n}] :
                /\ \A i \in 1 .. n : rows[i].date = i
                /\ data = OnlyRun1(rows, << >>)
       \/ data = OnlyRun1(FlatSeries(MinBars, 1, 8), << >>)
       \/ \E i \in 1 .. MinBars, f \in Fields :
             data = OnlyRun1([FlatSeries(MinBars, 1, 8) EXCEPT
                                 ![i] = RowWithout(i, f)], << >>)
    /\ ichimoku = [r \in Runs |-> NoSnapshot]
    /\ InitOtherLocals
    /\ historyFile = NoFile
    /\ InitFiles
    /\ app = Closed

FilterNext == Filter(1) \/ CheckLength(1)

FilterSpec == FilterInit /\ [][FilterNext]_vars

(***************************************************************************)
(* checkAlertHistory called for every signal and every date of a range,    *)
(* the date with and without its time of day, and the key read back by     *)
(* the rest of run.                                                        *)
(***************************************************************************)
KeyDays == 1 .. MaxDay

\* The ISO string of a day, and its first ten characters alone.
KeyDates == {toISOString(d) : d \in KeyDays}
                \cup {SubSeq(toISOString(d), 1, 10) : d \in KeyDays}

\* Run 1 stands before checkAlertHistory(signal, date).
KeyInit ==
    /\ pc = [r \in Runs |-> IF r = 1 THEN "exists" ELSE "fetch"]
    /\ data = [r \in Runs |-> << >>]
    /\ \E sig \in {BUY, SELL}, date \in KeyDates :
          /\ signal = OnlyRun1(sig, EmptyString)
          /\ ichimoku = OnlyRun1([tenkan |-> 8, kijun |-> 8, senkouA |-> 8,
                                   senkouB |-> 8, price |-> 8, date |-> date],
                                  NoSnapshot)
    /\ fileExists = [r \in Runs |-> FALSE]
    /\ history = [r \in Runs |-> EmptyObject]
    /\ ret = [r \in Runs |-> "none"]
    /\ sendResult = [r \in Runs |-> "none"]
    /\ historyData = [r \in Runs |-> EmptyObject]
    /\ error = [r \in Runs |-> NoError]
    /\ writtenAtRead = [r \in Runs |-> {}]
    /\ historyFile \in {NoFile, FileOf(EmptyObject)}
    /\ InitFiles
    /\ app = Closed

KeyNext ==
    \/ DedupExists(1)
    \/ DedupInit(1)
    \/ DedupRead(1)
    \/ DedupWrite(1)
    \/ SendEmail(1)
    \/ PublishRead(1)
    \/ PublishWrite(1)

KeySpec == KeyInit /\ [][KeyNext]_vars

(***************************************************************************)
(* One whole run, from calculateIchimoku to the published document, on     *)
(* every series of at least 78 bars of a family whose bars differ in open, *)
(* high, low and close.                                                    *)
(***************************************************************************)
LongLengths == MinBars .. MaxLen

PublishInit ==
    /\ pc = [r \in Runs |-> IF r = 1 THEN "compute" ELSE "fetch"]
    /\ \E n \in LongLengths, p \in Levels :
          \/ data = OnlyRun1(FlatSeries(n, 1, p), << >>)
          \/ \E i \in 1 .. n, k \in SpikeKinds :
                data = OnlyRun1(SpikeSeries(n, 1, p, i, k), << >>)
          \/ \E s \in 1 .. (n - 1), q \in Levels \ {p} :
                data = OnlyRun1(StepSeries(n, 1, s, p, q), << >>)
    /\ ichimoku = [r \in Runs |-> NoSnapshot]
    /\ InitOtherLocals
    /\ historyFile = NoFile
    /\ InitFiles
    /\ app = Closed

PublishNext ==
    \/ Compute(1)
    \/ Classify(1)
    \/ DedupExists(1)
    \/ DedupInit(1)
    \/ DedupRead(1)
    \/ DedupWrite(1)
    \/ SendEmail(1)
    \/ PublishRead(1)
    \/ PublishWrite(1)

PublishSpec == PublishInit /\ [][PublishNext]_vars

(***************************************************************************)
(* Properties.                                                             *)
(***************************************************************************)
Range(seq) == {seq[i] : i \in 1 .. Len(seq)}

\* The alert store as an object: empty when the file is missing.
Store == IF historyFile = NoFile THEN EmptyObject ELSE historyFile[1]

\* The step in which checkAlertHistory returns to run r.
Returns(r) == ret[r] = "none" /\ ret'[r] # "none"

\* The key of signal sig and calendar day `day`, written out.
KeyText(sig, day) == sig \o <<"-">> \o day

\* C1: from a missing or empty alert store and with calls that do not
\* overlap, checkAlertHistory(signal, date) with signal BUY or SELL returns
\* true exactly when an earlier call had the same signal and the same
\* calendar day; otherwise it returns false and the key is in the store.
C1_SuppressIffCalledBefore ==
    [][\A r \in Runs :
          Returns(r) =>
            /\ signal[r] \in {BUY, SELL}
            /\ (ret'[r] = "true") <=> (CallOf(r) \in called)
            /\ (ret'[r] = "false") =>
                 /\ ~ HasKey(Store, KeyText(CallOf(r)[1], CallOf(r)[2]))
                 /\ Truthy(Store', KeyText(CallOf(r)[1], CallOf(r)[2]))]_vars

\* BUY for a day is answered true after BUY and SELL for that day were asked.
C1_Witness ==
    \E r \in Runs :
        /\ ret[r] = "true"
        /\ signal[r] = BUY
        /\ <<SELL, CallOf(r)[2]>> \in called

\* C2: over runs that do not overlap, sendEmail is entered at most once for
\* each (signal, calendar day) pair.
C2_NotifiedAtMostOnce ==
    \A i, j \in 1 .. Len(sendLog) : i < j => sendLog[i] # sendLog[j]

\* A run is suppressed for a pair that an earlier run notified.
C2_Witness ==
    \E r \in Runs : ret[r] = "true" /\ CallOf(r) \in Range(sendLog)

\* C3: over runs that do not overlap, a key that is in the alert store stays
\* in it with the same true value after every step: no step deletes or
\* rewrites it.
C3_KeysStay ==
    [][\A i \in 1 .. Len(Store) :
          /\ historyFile' # NoFile
          /\ \E j \in 1 .. Len(Store') : Store'[j] = Store[i]
          /\ \A j \in 1 .. Len(Store') :
                Store'[j].key = Store[i].key => Store'[j].value = TRUE]_vars

\* A second key has been written beside a first one.
C3_Witness == Len(Store) >= 2

\* Run r has a signal and has read the alert store in checkAlertHistory.
HasRead(r) ==
    signal[r] # EmptyString /\ pc[r] \in {"write", "send", "pubread", "pubwrite"}

\* Runs r and q classified the same signal for the same day, and both read
\* the store before either had written the key.
BothReadFirst(r, q) ==
    /\ r # q
    /\ HasRead(r)
    /\ HasRead(q)
    /\ CallOf(r) = CallOf(q)
    /\ CallOf(r) \notin writtenAtRead[r]
    /\ CallOf(q) \notin writtenAtRead[q]

Entered(r) == pc[r] \in {"pubread", "pubwrite"}

\* C4: when two overlapping runs classify the same signal for the same day
\* and both read the store before either writes it, neither is answered true
\* by checkAlertHistory, and once both are past sendEmail the pair has been
\* notified twice.  Such an interleaving is reachable.
C4_RaceNotifiesTwice ==
    \A r, q \in Overlapping :
        BothReadFirst(r, q) =>
            /\ ret[r] # "true"
            /\ ret[q] # "true"
            /\ (Entered(r) /\ Entered(q)) =>
                  /\ ret[r] = "false"
                  /\ ret[q] = "false"
                  /\ Cardinality({i \in 1 .. Len(sendLog) : sendLog[i] = CallOf(r)}) = 2

\* Both runs read first, both were answered false, both have entered
\* sendEmail for the same pair.
C4_Witness ==
    /\ BothReadFirst(1, 2)
    /\ ret[1] = "false"
    /\ ret[2] = "false"
    /\ Entered(1)
    /\ Entered(2)
    /\ sendLog = <<CallOf(1), CallOf(2)>>

\* Run 1 has been classified.
Classified == pc[1] \in {"exists", "pubread"}

\* C5: the classification yields BUY exactly when tenkan > kijun and price
\* is strictly above both spans.
C5_BuyIff ==
    Classified =>
        ((signal[1] = BUY) <=>
            /\ ichimoku[1].tenkan > ichimoku[1].kijun
            /\ ichimoku[1].price > ichimoku[1].senkouA
            /\ ichimoku[1].price > ichimoku[1].senkouB)

C5_Witness ==
    Classified /\ signal[1] = BUY /\ ichimoku[1].senkouA < ichimoku[1].senkouB

\* C6: the classification yields SELL exactly when tenkan < kijun and price
\* is strictly below both spans.
C6_SellIff ==
    Classified =>
        ((signal[1] = SELL) <=>
            /\ ichimoku[1].tenkan < ichimoku[1].kijun
            /\ ichimoku[1].price < ichimoku[1].senkouA
            /\ ichimoku[1].price < ichimoku[1].senkouB)

C6_Witness ==
    Classified /\ signal[1] = SELL /\ ichimoku[1].senkouA < ichimoku[1].senkouB

Upper(s) == IF s.senkouA >= s.senkouB THEN s.senkouA ELSE s.senkouB

Lower(s) == IF s.senkouA <= s.senkouB THEN s.senkouA ELSE s.senkouB

\* A snapshot with a tie: equal lines, the price on the far edge of the
\* cloud, or the price inside the cloud or on one of its edges.
Tie(s) ==
    \/ s.tenkan = s.kijun
    \/ s.tenkan > s.kijun /\ s.price = Upper(s)
    \/ s.tenkan < s.kijun /\ s.price = Lower(s)
    \/ Lower(s) <= s.price /\ s.price <= Upper(s)

\* C7: every tie is classified neutral: no signal is set, the run goes on to
\* publish without asking the deduplicator, and NEUTRAL is what it reports.
C7_TiesAreNeutral ==
    (Classified /\ Tie(ichimoku[1])) =>
        /\ signal[1] = EmptyString
        /\ OrElse(signal[1], NEUTRAL) = NEUTRAL
        /\ pc[1] = "pubread"

\* The price on the upper edge of a cloud of two different spans, tenkan
\* above kijun.
C7_Witness ==
    /\ Classified
    /\ ichimoku[1].tenkan > ichimoku[1].kijun
    /\ ichimoku[1].price = Upper(ichimoku[1])
    /\ ichimoku[1].price > Lower(ichimoku[1])
    /\ signal[1] = EmptyString

\* C8: on a series of 0 to 77 bars calculateIchimoku throws a not-enough-data
\* error and produces no snapshot: the Span A error below 52 bars, the Span B
\* error from 52 to 77 bars.
C8_ShortSeriesThrows ==
    [][(pc[1] = "compute" /\ pc'[1] # "compute" /\ Len(data[1]) <= 77) =>
          /\ calculateIchimoku(data[1]).threw
          /\ calculateIchimoku(data[1]).value = NoSnapshot
          /\ pc'[1] = "exit1"
          /\ ichimoku'[1] = NoSnapshot
          /\ error'[1] = IF Len(data[1]) <= 51 THEN SpanAError ELSE SpanBError]_vars

\* The engine has thrown the Span B error.
C8_Witness == pc[1] = "exit1" /\ error[1] = SpanBError

\* Every bar of d has high = low = close = p.
Constant(d, p) ==
    \A i \in 1 .. Len(d) : d[i].high = p /\ d[i].low = p /\ d[i].close = p

\* C9: on a series of at least 78 bars that all have high = low = close = P,
\* calculateIchimoku returns tenkan = kijun = senkouA = senkouB = price = P,
\* and the classification sets no signal (NEUTRAL).
C9_ConstantSeriesNeutral ==
    [][\A p \in Levels :
          (Len(data[1]) >= 78 /\ Constant(data[1], p)) =>
              /\ pc[1] = "compute" =>
                    /\ pc'[1] = "classify"
                    /\ ichimoku'[1].tenkan = p
                    /\ ichimoku'[1].kijun = p
                    /\ ichimoku'[1].senkouA = p
                    /\ ichimoku'[1].senkouB = p
                    /\ ichimoku'[1].price = p
              /\ pc[1] = "classify" =>
                    /\ signal'[1] = EmptyString
                    /\ OrElse(signal'[1], NEUTRAL) = NEUTRAL
                    /\ pc'[1] = "pubread"]_vars

\* A constant series of the longest length has been computed and classified.
C9_Witness ==
    /\ pc[1] = "pubread"
    /\ Len(data[1]) = MaxLen
    /\ \E p \in Levels : Constant(data[1], p) /\ ichimoku[1].senkouB = p
    /\ signal[1] = EmptyString

\* C10: a run whose alert is suppressed sends nothing and still publishes
\* the snapshot with the signal it classified, as it would have unsuppressed;
\* a run whose alert is new has its key in the store and enters sendEmail.
\* So of two runs on the same BUY series the first notifies and the second
\* publishes signal BUY without notifying.
C10_SuppressedRunStillPublishes ==
    /\ [](\A r \in Runs :
            /\ ret[r] = "true" =>
                 /\ pc[r] \in {"pubread", "pubwrite"}
                 /\ sendResult[r] = "none"
                 /\ CallOf(r) \in Range(sendLog)
            /\ ret[r] = "false" =>
                 /\ Truthy(Store, AlertKey(signal[r], ichimoku[r].date))
                 /\ pc[r] \in {"send", "pubread", "pubwrite"}
                 /\ pc[r] # "send" => sendLog[Len(sendLog)] = CallOf(r))
    /\ [][\A r \in Runs :
            (pc[r] = "pubwrite" /\ pc'[r] # "pubwrite") =>
                /\ pc'[r] = "done"
                /\ websiteData' # NoFile
                /\ websiteData'[1].signal =
                      OrElse(classify(calculateIchimoku(data[r]).value), NEUTRAL)
                /\ websiteData'[1].price = data[r][Len(data[r])].close
                /\ websiteData'[1].date = toISOString(data[r][Len(data[r])].date)
                /\ ret[r] = "true" => websiteData'[1].signal = signal[r]]_vars

\* The second run of two on the same BUY series: the first has notified and
\* published BUY, the second is suppressed and about to publish.
C10_Witness ==
    /\ pc[1] = "done"
    /\ pc[2] = "pubwrite"
    /\ ret[2] = "true"
    /\ signal[2] = BUY
    /\ sendLog = <<CallOf(2)>>
    /\ websiteData # NoFile
    /\ websiteData[1].signal = BUY
    /\ websiteData[1].date = ichimoku[2].date

\* Run r is classified neutral, or is about to be.
Neutral(r) ==
    \/ pc[r] = "classify" /\ classify(ichimoku[r]) = EmptyString
    \/ pc[r] \in {"pubread", "pubwrite"} /\ signal[r] = EmptyString

\* C11: a run classified neutral goes from the classification straight to
\* publishing: none of its steps calls checkAlertHistory or sendEmail or
\* changes the alert store (a missing store stays missing), and the snapshot
\* it publishes has signal NEUTRAL.
C11_NeutralSkipsDedup ==
    [][\A r \in Runs :
          (Neutral(r) /\ pc'[r] # pc[r]) =>
              /\ pc'[r] \in {"pubread", "pubwrite", "done"}
              /\ historyFile' = historyFile
              /\ sendLog' = sendLog
              /\ called' = called
              /\ pc'[r] = "done" =>
                    /\ websiteData' # NoFile
                    /\ websiteData'[1].signal = NEUTRAL]_vars

\* A neutral first run has published NEUTRAL; the store is still missing and
\* nothing was sent.
C11_Witness ==
    /\ pc[1] = "done"
    /\ pc[2] = "fetch"
    /\ websiteData # NoFile
    /\ websiteData[1].signal = NEUTRAL
    /\ historyFile = NoFile
    /\ sendLog = << >>
    /\ called = {}

\* The sendEmail call for the pair of run r is on record with result res.
Recorded(r, res) == <<CallOf(r)[1], CallOf(r)[2], res>> \in outcomes

\* C12: a send that fails leaves the alert store as it is, with the key of
\* the pair in it, and the run goes on without an error to read the store
\* and publish the snapshot with its signal; no later run enters sendEmail
\* for a pair whose send failed.
C12_FailedSendKeepsKey ==
    /\ [](\A r \in Runs :
            (pc[r] \in {"write", "send"}) => ~ Recorded(r, "failed"))
    /\ [][\A r \in Runs :
            /\ (pc[r] = "send"
                    /\ <<CallOf(r)[1], CallOf(r)[2], "failed">> \in outcomes') =>
                  /\ historyFile' = historyFile
                  /\ Truthy(Store', AlertKey(signal[r], ichimoku[r].date))
                  /\ pc'[r] = "pubread"
                  /\ error'[r] = NoError
            /\ (sendResult[r] = "failed" /\ pc[r] = "pubwrite"
                    /\ pc'[r] # pc[r]) =>
                  /\ pc'[r] = "done"
                  /\ websiteData' # NoFile
                  /\ websiteData'[1].signal = signal[r]
            /\ (Returns(r) /\ Recorded(r, "failed")) =>
                  /\ ret'[r] = "true"
                  /\ pc'[r] = "pubread"
                  /\ sendLog' = sendLog]_vars

\* The first run's send failed and it published; the second run, for the
\* same pair, is suppressed and about to publish.
C12_Witness ==
    /\ pc[1] = "done"
    /\ websiteData # NoFile
    /\ pc[2] = "pubwrite"
    /\ ret[2] = "true"
    /\ Recorded(2, "failed")
    /\ outcomes = {<<CallOf(2)[1], CallOf(2)[2], "failed">>}
    /\ Truthy(Store, AlertKey(signal[2], ichimoku[2].date))

\* C13: a sendEmail call without SMTP user or password sends nothing (its
\* record is the skipped call alone) and raises no error; the run goes on
\* to publish the snapshot: the signal it classified, the latest close
\* and date, and the alert of this run in the signal history, as for a run
\* that sent.
C13_UnconfiguredSkipsSend ==
    [][\A r \in Runs :
          /\ (pc[r] = "send"
                  /\ <<CallOf(r)[1], CallOf(r)[2], "skipped">> \in outcomes') =>
                /\ outcomes' = outcomes \cup {<<CallOf(r)[1], CallOf(r)[2], "skipped">>}
                /\ signal[r] \in {BUY, SELL}
                /\ pc'[r] = "pubread"
                /\ error'[r] = NoError
                /\ historyFile' = historyFile
                /\ websiteData' = websiteData
          /\ (sendResult[r] \in {"skipped", "sent"} /\ pc[r] = "pubwrite"
                  /\ pc'[r] # pc[r]) =>
                /\ pc'[r] = "done"
                /\ error'[r] = NoError
                /\ websiteData' # NoFile
                /\ websiteData'[1].signal = signal[r]
                /\ websiteData'[1].price = data[r][Len(data[r])].close
                /\ websiteData'[1].date = toISOString(data[r][Len(data[r])].date)
                /\ [type |-> CallOf(r)[1], date |-> CallOf(r)[2]]
                      \in Range(websiteData'[1].signalHistory)]_vars

\* A run whose send was skipped has ended without error and published its
\* signal.
C13_Witness ==
    /\ pc[1] = "done"
    /\ error[1] = NoError
    /\ websiteData # NoFile
    /\ \E t \in outcomes :
          /\ outcomes = {t}
          /\ t[3] = "skipped"
          /\ websiteData[1].signal = t[1]
          /\ SubSeq(websiteData[1].date, 1, 10) = t[2]

\* C14: a fetch that fails, or answers with a status that is not a success,
\* ends the run at its first step with exit status 1: the alert store and
\* the published snapshot are as they were and nothing is sent.
C14_FetchFailureAborts ==
    [][\A r \in Runs :
          (error'[r] = FetchError /\ error[r] # FetchError) =>
              /\ pc[r] = "fetch"
              /\ pc'[r] = "exit1"
              /\ historyFile' = historyFile
              /\ websiteData' = websiteData
              /\ sendLog' = sendLog
              /\ called' = called]_vars

\* The first run recorded an alert and published; the fetch of the second
\* failed, and the store, the snapshot and the sends are those of the first.
C14_Witness ==
    /\ pc[1] = "done"
    /\ pc[2] = "exit1"
    /\ error[2] = FetchError
    /\ Len(Store) = 1
    /\ Len(sendLog) = 1
    /\ websiteData # NoFile
    /\ websiteData[1].signal = sendLog[1][1]

\* C15: a run left with fewer than 78 bars ends at the length test with a
\* normal completion and no error: no snapshot was computed, and the alert
\* store, the published snapshot and the sends are as they were.
C15_ShortSeriesEndsCleanly ==
    [][\A r \in Runs :
          (pc[r] = "check" /\ Len(data[r]) < 78 /\ pc'[r] # pc[r]) =>
              /\ pc'[r] = "done"
              /\ error'[r] = NoError
              /\ ichimoku[r] = NoSnapshot
              /\ historyFile' = historyFile
              /\ websiteData' = websiteData
              /\ sendLog' = sendLog
              /\ called' = called]_vars

\* The first run ended normally without publishing, which only the length
\* test does; the second has fetched 77 bars.
C15_Witness ==
    /\ pc[1] = "done"
    /\ error[1] = NoError
    /\ websiteData = NoFile
    /\ historyFile = NoFile
    /\ sendLog = << >>
    /\ pc[2] = "check"
    /\ Len(data[2]) = 77

\* C16: when a read or a write of the alert store throws inside
\* checkAlertHistory, the run ends there with exit status 1 and takes no
\* further step: sendEmail is not called and the published snapshot is as
\* it was.  A damaged store leaves checkAlertHistory no other way out.
C16_StoreFailureIsFatal ==
    [][\A r \in Runs :
          /\ (pc[r] \in {"init", "read", "write"}
                  /\ error'[r] \in {WriteFailed, ReadFailed}) =>
                /\ pc'[r] = "exit1"
                /\ sendLog' = sendLog
                /\ outcomes' = outcomes
                /\ websiteData' = websiteData
          /\ (pc[r] = "read" /\ ~ Parses(historyFile) /\ pc'[r] # pc[r]) =>
                /\ pc'[r] = "exit1"
                /\ error'[r] = ReadFailed
          /\ pc[r] = "exit1" =>
                /\ pc'[r] = "exit1"
                /\ error'[r] = error[r]]_vars

\* The write of the first run threw and left the store damaged; nothing was
\* sent or published; the second run is about to read the store.
C16_Witness ==
    /\ pc[1] = "exit1"
    /\ error[1] = WriteFailed
    /\ sendLog = << >>
    /\ websiteData = NoFile
    /\ pc[2] = "read"
    /\ ~ Parses(historyFile)

\* The first ten characters of a date string: its YYYY-MM-DD day.
DayOf(date) == SubSeq(date, 1, 10)

\* C17: the key checkAlertHistory writes for (signal, date), the date with
\* or without a time of day, is signal, '-' and the day of the date, and
\* the entry run decodes from it has the signal as type and the day
\* YYYY-MM-DD as date.
C17_KeyRoundTrip ==
    [][/\ (pc[1] = "write" /\ pc'[1] # pc[1]) =>
             /\ Len(Store') = 1
             /\ Store'[1].key = signal[1] \o <<"-">> \o DayOf(ichimoku[1].date)
       /\ (pc[1] = "pubwrite" /\ pc'[1] # pc[1]) =>
             /\ websiteData' # NoFile
             /\ websiteData'[1].signalHistory =
                   <<[type |-> signal[1], date |-> DayOf(ichimoku[1].date)]>>]_vars

\* The key of SELL on 2024-02-01, the date given without a time of day, has
\* been decoded into the published document.
C17_Witness ==
    /\ pc[1] = "done"
    /\ websiteData # NoFile
    /\ websiteData[1].date = <<"2", "0", "2", "4", "-", "0", "2", "-", "0", "1">>
    /\ websiteData[1].signalHistory = <<[type |-> SELL, date |-> websiteData[1].date]>>

HLCNumeric(d) == d.high # NaN /\ d.low # NaN /\ d.close # NaN

\* C19: the filter drops a row exactly when its high, low or close is not a
\* number, whatever its open, and keeps the other rows in their order; 78
\* rows with numeric high, low and close pass the length test of run.
C19_DropsIffHighLowCloseNonNumeric ==
    [][/\ (pc[1] = "filter" /\ pc'[1] # pc[1]) =>
             data'[1] = SelectSeq(data[1], HLCNumeric)
       /\ (pc[1] = "check" /\ pc'[1] # pc[1] /\ Len(data[1]) >= 78) =>
             pc'[1] = "compute"]_vars

\* The signal of a snapshot as the claim words it.
SignalOf(s) ==
    IF s.tenkan > s.kijun /\ s.price > Upper(s) THEN BUY
    ELSE IF s.tenkan < s.kijun /\ s.price < Lower(s) THEN SELL
    ELSE NEUTRAL

HoldsSignal(r) ==
    pc[r] \in {"exists", "init", "read", "write", "send", "pubread", "pubwrite"}

BarsOf(d, first, last) == {d[i + 1] : i \in first .. last}

\* The greatest high and the least low of a set of bars.
MaxHigh(bars) == CHOOSE h \in {b.high : b \in bars} : \A b \in bars : b.high <= h

MinLow(bars) == CHOOSE l \in {b.low : b \in bars} : \A b \in bars : b.low >= l

\* m is (max high + min low) / 2 over the bars.
IsMidpointOf(m, bars) == 2 * m = MaxHigh(bars) + MinLow(bars)

\* C22: for a series of n >= 78 bars calculateIchimoku returns a snapshot
\* whose tenkan is (max high + min low) / 2 over bars n-9 .. n-1, whose kijun
\* is (max high + min low) / 2 over bars n-26 .. n-1, whose price is the close
\* of bar n-1 and whose date is the date of bar n-1.
C22_TenkanKijunWindows ==
    [][(pc[1] = "compute" /\ Len(data[1]) >= 78 /\ pc'[1] # "compute") =>
          LET d == data[1]
              n == Len(data[1])
          IN  /\ pc'[1] = "classify"
              /\ IsMidpointOf(ichimoku'[1].tenkan, BarsOf(d, n - 9, n - 1))
              /\ IsMidpointOf(ichimoku'[1].kijun, BarsOf(d, n - 26, n - 1))
              /\ ichimoku'[1].price = d[n].close
              /\ ichimoku'[1].date = toISOString(d[n].date)]_vars

\* A snapshot of 79 bars, one of them off the level inside the Kijun window
\* and outside the Tenkan window.
C22_Witness ==
    /\ pc[1] = "classify" /\ Len(data[1]) = 79
    /\ ichimoku[1].tenkan # ichimoku[1].kijun
    /\ \E i \in 1 .. 79 : data[1][i].high # data[1][i].low

\* Series d with each of its latest 26 bars replaced by a flat bar at the
\* close of the bar before them.
LatestReplaced(d) ==
    [i \in 1 .. Len(d) |->
        IF i > Len(d) - 26 THEN FlatBar(d[i].date, d[Len(d) - 26].close)
        ELSE d[i]]

\* C23: for a series of n >= 78 bars senkouA is the average of the midpoint
\* over bars n-35 .. n-27 and the midpoint over bars n-52 .. n-27, and senkouB
\* is the midpoint over bars n-78 .. n-27; the windows hold 9, 26 and 52 bars
\* and none of the latest 26, so the spans are those of the series with its
\* latest 26 bars replaced.
C23_SpanWindows ==
    [][(pc[1] = "compute" /\ Len(data[1]) >= 78 /\ pc'[1] # "compute") =>
          LET d == data[1]
              n == Len(data[1])
              s == ichimoku'[1]
          IN  /\ pc'[1] = "classify"
              /\ 4 * s.senkouA =
                    (MaxHigh(BarsOf(d, n - 35, n - 27))
                        + MinLow(BarsOf(d, n - 35, n - 27)))
                    + (MaxHigh(BarsOf(d, n - 52, n - 27))
                        + MinLow(BarsOf(d, n - 52, n - 27)))
              /\ IsMidpointOf(s.senkouB, BarsOf(d, n - 78, n - 27))
              /\ Cardinality(BarsOf(d, n - 35, n - 27)) = 9
              /\ Cardinality(BarsOf(d, n - 52, n - 27)) = 26
              /\ Cardinality(BarsOf(d, n - 78, n - 27)) = 52
              /\ BarsOf(d, n - 78, n - 27) \cap BarsOf(d, n - 26, n - 1) = {}
              /\ s.senkouA = senkouAOf(LatestReplaced(d))
              /\ s.senkouB = senkouBOf(LatestReplaced(d))]_vars

\* A snapshot of 80 bars whose spans differ from each other while the latest
\* bar is off the level of the earliest.
C23_Witness ==
    /\ pc[1] = "classify" /\ Len(data[1]) = 80
    /\ ichimoku[1].senkouA # ichimoku[1].senkouB
    /\ data[1][80].close # data[1][1].close

\* The place of a program position in the sequence fetch, compute, classify,
\* deduplicate, notify, publish; the end of the process comes last.
Phase(p) ==
    CASE p \in {"fetch", "filter", "check"} -> 1
      [] p = "compute" -> 2
      [] p = "classify" -> 3
      [] p \in {"exists", "init", "read", "write"} -> 4
      [] p = "send" -> 5
      [] p \in {"pubread", "pubwrite"} -> 6
      [] p \in {"done", "exit1"} -> 7

\* The key of run r is in the durable store.
KeyStored(r) ==
    /\ Parses(historyFile)
    /\ Truthy(historyFile[1], AlertKey(signal[r], ichimoku[r].date))

\* C24: within one run the steps come in the sequence fetch, compute,
\* classify, deduplicate, notify, publish and none is gone back to; while a
\* notification is being sent its key is in the durable store; and the
\* snapshot is written only by a run in its publish step, which comes after
\* the notification attempt has ended as sent, failed or skipped whenever
\* checkAlertHistory answered false.
C24_StrictSequence ==
    [][\A r \in Runs :
          /\ (pc'[r] # pc[r] /\ pc[r] # "fetch") =>
                /\ Phase(pc'[r]) >= Phase(pc[r])
                /\ Phase(pc'[r]) < 7 =>
                      \/ Phase(pc'[r]) <= Phase(pc[r]) + 1
                      \/ Phase(pc'[r]) = 6 /\ Phase(pc[r]) \in {3, 4}
          /\ (pc[r] = "fetch" /\ pc'[r] # pc[r]) => Phase(pc'[r]) \in {1, 7}
          /\ pc'[r] = "send" => KeyStored(r)'
          /\ pc'[r] = "send" => ret'[r] = "false" /\ sendResult'[r] = "none"
          /\ (Phase(pc'[r]) = 6 /\ ret'[r] = "false") =>
                sendResult'[r] \in SendResults
          /\ websiteData' # websiteData =>
                \E q \in Runs : pc[q] = "pubwrite" /\ pc'[q] = "done"]_vars

\* A run is writing the snapshot after its notification attempt failed, the
\* key being in the store.
C24_Witness ==
    \E r \in Runs :
        /\ pc[r] = "pubwrite" /\ ret[r] = "false" /\ sendResult[r] = "failed"
        /\ KeyStored(r)

\* C25: alert records survive overlapping runs: once both overlapping runs
\* have finished, every key that either of them wrote is in the durable
\* store.
C25_RecordsSurviveOverlap ==
    (\A r \in Overlapping : Finished(r)) =>
        \A c \in written :
            /\ Parses(historyFile)
            /\ Truthy(historyFile[1], KeyText(c[1], c[2]))

(***************************************************************************)
(* run from its length check on, for every series of a family whatever its *)
(* length: the series is what fetchHistoricalData handed to run 1.         *)
(***************************************************************************)
GuardInit ==
    /\ pc = [r \in Runs |-> IF r = 1 THEN "check" ELSE "fetch"]
    /\ \E n \in Lengths, p \in Levels :
          \/ data = OnlyRun1(FlatSeries(n, 1, p), << >>)
          \/ \E i \in 1 .. n, k \in SpikeKinds :
                data = OnlyRun1(SpikeSeries(n, 1, p, i, k), << >>)
          \/ \E s \in 1 .. (n - 1), q \in Levels \ {p} :
                data = OnlyRun1(StepSeries(n, 1, s, p, q), << >>)
    /\ ichimoku = [r \in Runs |-> NoSnapshot]
    /\ InitOtherLocals
    /\ historyFile = NoFile
    /\ InitFiles
    /\ app = Closed

GuardNext == CheckLength(1) \/ Compute(1) \/ Classify(1)

GuardSpec == GuardInit /\ [][GuardNext]_vars

\* The snapshot holds five numbers and a date.
IsSnapshot(s) ==
    /\ s.tenkan # NaN /\ s.kijun # NaN /\ s.senkouA # NaN /\ s.senkouB # NaN
    /\ s.price # NaN /\ s.date # EmptyString

\* C26: run returns at its length check when fewer than 78 bars are present,
\* so calculateIchimoku is called on series of at least 78 bars only; on each
\* of them it returns a snapshot and does not throw, neither of its
\* 'Not enough data' errors is ever the error of the run, and no run ends
\* with exit code 1.
C26_EngineNeverThrowsInRun ==
    [][/\ (pc[1] = "check" /\ Len(data[1]) < 78) =>
              pc'[1] = "done" /\ error'[1] = NoError
       /\ pc[1] = "compute" =>
              /\ Len(data[1]) >= 78
              /\ ~calculateIchimoku(data[1]).threw
              /\ pc'[1] = "classify"
              /\ IsSnapshot(ichimoku'[1])
       /\ error'[1] \notin {SpanAError, SpanBError}
       /\ pc'[1] # "exit1"]_vars

\* The snapshot of a series of exactly 78 bars, one of them off the level.
C26_Witness ==
    /\ pc[1] = "classify" /\ Len(data[1]) = 78 /\ IsSnapshot(ichimoku[1])
    /\ error[1] = NoError
    /\ \E i \in 1 .. 78 : data[1][i].high # data[1][i].low

\* C27: the alert key is recorded whether or not anything is sent: when
\* sendEmail skips for missing credentials the key of the run is in the
\* durable store, it is still there when that run ends, and every later run
\* for the same signal and day is answered true by checkAlertHistory and
\* does not enter sendEmail, whatever the credentials then are.
C27_SkippedSendRecordsKey ==
    [][\A r \in Runs :
          /\ (pc[r] = "send"
                  /\ <<CallOf(r)[1], CallOf(r)[2], "skipped">> \in outcomes') =>
                /\ sendResult'[r] = "skipped"
                /\ KeyStored(r)
                /\ KeyStored(r)'
          /\ (sendResult[r] = "skipped" /\ pc'[r] = "done") =>
                /\ Parses(historyFile')
                /\ Truthy(historyFile'[1], AlertKey(signal[r], ichimoku[r].date))
          /\ (pc'[r] = "send" /\ pc[r] # "send") => ~ Recorded(r, "skipped")'
          /\ (Returns(r) /\ Recorded(r, "skipped")) =>
                /\ ret'[r] = "true"
                /\ pc'[r] = "pubread"
                /\ sendLog' = sendLog
                /\ outcomes' = outcomes]_vars

\* The first run skipped its send and ended; the second run, for the same
\* signal and day, was answered true and sent nothing.
C27_Witness ==
    /\ pc[1] = "done" /\ pc[2] = "pubread"
    /\ ret[2] = "true" /\ sendResult[2] = "none"
    /\ outcomes = {<<CallOf(2)[1], CallOf(2)[2], "skipped">>}
    /\ Len(sendLog) = 1
    /\ KeyStored(2)

\* The signal the two branches give when SELL is tested before BUY.
SellTestedFirst(s) ==
    IF IsSell(s) THEN SELL
    ELSE IF IsBuy(s) THEN BUY
    ELSE EmptyString

\* C28: the BUY condition and the SELL condition are mutually exclusive: no
\* classified snapshot satisfies both, the signal is the one the branches
\* give in the other order too, and the run records at most one alert key.
C28_BuySellExclusive ==
    pc[1] # "classify" =>
        /\ ~ (IsBuy(ichimoku[1]) /\ IsSell(ichimoku[1]))
        /\ signal[1] = SellTestedFirst(ichimoku[1])
        /\ Len(Store) <= 1
        /\ Cardinality(written) <= 1
        /\ \A c \in written : c[1] = signal[1]

\* A run that classified SELL with senkouA above senkouB and recorded the
\* one key of it.
C28_Witness ==
    /\ pc[1] = "send" /\ signal[1] = SELL
    /\ ichimoku[1].senkouA > ichimoku[1].senkouB
    /\ Len(Store) = 1 /\ KeyStored(1)

(***************************************************************************)
(* The dashboard, step by step.  A step is what runs between two awaits or *)
(* up to a state setter that makes the component render: the setters that  *)
(* precede setLoading(false) are taken together, setLoading(false) is a    *)
(* step of its own, since outside an event handler a setter can render at  *)
(* once.  The tracker does not move while the dashboard is looked at.      *)
(***************************************************************************)
MaxPolls == 2

trackerVars ==
    <<pc, data, ichimoku, signal, fileExists, history, ret, sendResult,
      historyData, error, historyFile, websiteData, sendLog, outcomes,
      called, written, writtenAtRead>>

\* The component is mounted and has not been torn down by a render error.
Alive == app.mounted /\ app.view # "TypeError"

\* useEffect(() => { fetchRealData(); setInterval(fetchRealData, ...) }, [])
useEffect ==
    /\ ~ app.mounted
    /\ app.variant \in Variants
    /\ app' = [app EXCEPT !.mounted = TRUE, !.pending = 1]
    /\ UNCHANGED trackerVars

\* The interval fires and calls fetchRealData again.
IntervalFires ==
    /\ Alive
    /\ app.at = "idle"
    /\ app.polls < MaxPolls
    /\ app' = [app EXCEPT !.polls = @ + 1, !.pending = @ + 1]
    /\ UNCHANGED trackerVars

\* fetchRealData, try branch: the response is ok and parses to jsonData;
\* setData, setCurrentPrice, setIchimoku.
fetchRealData ==
    /\ Alive
    /\ app.at = "idle"
    /\ app.pending > 0
    /\ \E jsonData \in Documents :
          app' = [app EXCEPT !.data = jsonData.history,
                             !.currentPrice = jsonData.price,
                             !.ichimoku = <<ichimokuOf(jsonData)>>,
                             !.pending = @ - 1,
                             !.at = "setLoading"]
    /\ UNCHANGED trackerVars

\* fetchRealData, catch branch: the fetch rejects, the response is not ok,
\* or its body is not a JSON object; fetchMockData() up to setLoading.
fetchRealDataCatch ==
    /\ Alive
    /\ app.at = "idle"
    /\ app.pending > 0
    /\ app' = [fetchMockData(app) EXCEPT !.pending = @ - 1,
                                         !.at = "setLoading"]
    /\ UNCHANGED trackerVars

\* setLoading(false), the last statement of both branches.
setLoading ==
    /\ Alive
    /\ app.at = "setLoading"
    /\ app' = [app EXCEPT !.loading = FALSE, !.at = "idle"]
    /\ UNCHANGED trackerVars

\* React renders the component on the states it holds.
Render ==
    /\ Alive
    /\ app.view # render(app)
    /\ app' = [app EXCEPT !.view = render(app)]
    /\ UNCHANGED trackerVars

DashInit ==
    /\ pc = [r \in Runs |-> "fetch"]
    /\ InitLocals
    /\ historyFile = NoFile
    /\ InitFiles
    /\ \E v \in Variants : app = useState(v)

DashNext ==
    \/ useEffect
    \/ IntervalFires
    \/ fetchRealData
    \/ fetchRealDataCatch
    \/ setLoading
    \/ Render

DashSpec == DashInit /\ [][DashNext]_vars

\* C29: in every variant of the dashboard's App, whatever fetches succeeded
\* and failed, a state with loading = false has a non-null ichimoku, and no
\* render ends in the TypeError of reading ichimoku.signal on null.
C29_LoadedHasIchimoku ==
    /\ (app.mounted /\ ~ app.loading) => app.ichimoku # null
    /\ app.view # "TypeError"

=============================================================================
